---- MODULE Spec2Model ----
(***************************************************************************)
(* A model of actix-xml: the Xml<T> extractor (src/src/lib.rs), its        *)
(* configuration (src/src/config.rs) and its error type                    *)
(* (src/src/error.rs).                                                     *)
(*                                                                         *)
(* One request and its payload are built (Init), handed either to         *)
(* Xml::from_request or to XmlBody::new, and the returned future is        *)
(* polled.  At every poll some of the items the payload stream has yet to  *)
(* hand over are ready; when they run out the stream answers Pending.      *)
(* The future may be dropped before it returns, and the host makes the     *)
(* response of an error (Spec).  SpecSource polls an XmlBody on a stream   *)
(* that need not end; SpecPair runs two extractions that share one         *)
(* XmlConfig.                                                              *)
(***************************************************************************)
EXTENDS Integers, Sequences, FiniteSets, TLC

----------------------------------------------------------------------------
(* Bounds of the model *)

\* the payload stream holds at most this many items, its end included
MaxItems == 3
\* at most this many polls of the stream answer Pending
MaxPending == 1
\* the limit of the XmlConfig attached directly as app data
DirectLimit == 3
\* the limit of the XmlConfig attached inside web::Data
WrappedLimit == 2
\* two extractions that share a config: the limit of the config, and the
\* most items the payload of each holds
PairLimit == 2
PairItems == 2
\* a stream that need not end: the largest limit of the XmlBody that reads
\* it, and the most items of it the model looks at
SourceLimit == 2
SourceItems == 4

(* Program constants *)

\* config.rs:49 (DEFAULT_CONFIG.limit)
DEFAULT_LIMIT == 262144
\* lib.rs:213 (XmlBody::new)
XMLBODY_DEFAULT_LIMIT == 262144
\* error.rs:27 (StatusCode::PAYLOAD_TOO_LARGE)
PAYLOAD_TOO_LARGE == 413
\* error.rs:28 (StatusCode::BAD_REQUEST)
BAD_REQUEST == 400

----------------------------------------------------------------------------
(* Option<T> *)

\* Option<usize>.  A usize is held as its decimal digits, most significant
\* first and without leading zeros, so that every value up to usize::MAX has
\* a representation.
NoLen == [some |-> FALSE, v |-> <<>>]
SomeLen(n) == [some |-> TRUE, v |-> n]

----------------------------------------------------------------------------
(* XMLPayloadError and the output of the futures *)

NoResult == [tag |-> "None", err |-> "None", cause |-> "None", value |-> <<>>]
Ok(v) == [tag |-> "Ok", err |-> "None", cause |-> "None", value |-> v]
Overflow == [tag |-> "Err", err |-> "Overflow", cause |-> "None", value |-> <<>>]
ContentType == [tag |-> "Err", err |-> "ContentType", cause |-> "None", value |-> <<>>]
Deserialize == [tag |-> "Err", err |-> "Deserialize", cause |-> "None", value |-> <<>>]
\* XMLPayloadError::Payload(#[from] PayloadError): the source's error, wrapped
Payload(code) == [tag |-> "Err", err |-> "Payload", cause |-> code, value |-> <<>>]

----------------------------------------------------------------------------
(* XmlConfig *)

\* content_type: "None", or the name of the predicate held in the Arc
XmlConfig(l, p) == [limit |-> l, content_type |-> p]

DEFAULT_CONFIG == XmlConfig(DEFAULT_LIMIT, "None")

NoConfig == [some |-> FALSE, v |-> DEFAULT_CONFIG]
SomeConfig(c) == [some |-> TRUE, v |-> c]

\* the predicate the tests configure:
\*   |mime| mime.type_() == mime::TEXT && mime.subtype() == mime::PLAIN
predicate(name, mime) ==
    /\ name = "text_plain"
    /\ mime.type = "text"
    /\ mime.subtype = "plain"

----------------------------------------------------------------------------
(* The request: headers and app data *)

\* A Content-Type header value.  kind "absent": no header; "malformed": a
\* value that is no media type (to_str or parse fails); "mime": a media type
\* with its parameters.
NoMime == [type |-> "", subtype |-> "", params |-> <<>>]
Mime(t, s, p) == [type |-> t, subtype |-> s, params |-> p]
CtAbsent == [kind |-> "absent", mime |-> NoMime]
CtMalformed == [kind |-> "malformed", mime |-> NoMime]
CtMime(t, s, p) == [kind |-> "mime", mime |-> Mime(t, s, p)]

Charset == <<"charset=utf-8">>

ContentTypeHeaders ==
    { CtAbsent, CtMalformed,
      CtMime("text", "xml", <<>>),
      CtMime("application", "xml", <<>>),
      CtMime("text", "xml", Charset),
      CtMime("text", "plain", <<>>),
      CtMime("text", "html", <<>>) }

\* HttpMessage::mime_type as check_content_type reads it:
\* Err, Ok(None) or Ok(Some(mime))
mime_type(h) ==
    CASE h.kind = "absent" -> [tag |-> "None", mime |-> NoMime]
      [] h.kind = "mime" -> [tag |-> "Some", mime |-> h.mime]
      [] OTHER -> [tag |-> "Err", mime |-> NoMime]

\* mime == "text/xml": Mime's PartialEq<&str> compares the whole media type,
\* parameters included, with the string
mime_eq_str(mime, t, s) ==
    /\ mime.type = t
    /\ mime.subtype = s
    /\ mime.params = <<>>

\* A Content-Length header value: absent, bytes that are no visible ASCII,
\* or a text (a sequence of characters)
ClAbsent == [kind |-> "absent", text |-> <<>>]
ClOpaque == [kind |-> "opaque", text |-> <<>>]
ClText(s) == [kind |-> "text", text |-> s]

DigitChars == <<"0", "1", "2", "3", "4", "5", "6", "7", "8", "9">>

RECURSIVE Digits(_)
Digits(n) ==
    IF n < 10 THEN <<DigitChars[n + 1]>>
    ELSE Append(Digits(n \div 10), DigitChars[(n % 10) + 1])

DeclaredLens == (WrappedLimit .. (DirectLimit + 1)) \cup {DEFAULT_LIMIT + 1}

\* usize::MAX of the 64-bit build, 18446744073709551615, as digits
USIZE_MAX ==
    << "1", "8", "4", "4", "6", "7", "4", "4", "0", "7",
       "3", "7", "0", "9", "5", "5", "1", "6", "1", "5" >>

\* the digits of usize::MAX + 1
OverUsize == Append(SubSeq(USIZE_MAX, 1, Len(USIZE_MAX) - 1), "6")

ContentLengthHeaders ==
    { ClAbsent, ClOpaque, ClText(<<"a">>), ClText(<<"-", "1">>), ClText(OverUsize) }
        \cup { ClText(Digits(n)) : n \in DeclaredLens }

IsDigit(c) == \E i \in 1..10 : DigitChars[i] = c
DigitVal(c) == (CHOOSE i \in 1..10 : DigitChars[i] = c) - 1

\* a <= b for two numbers of as many digits
RECURSIVE digits_le(_, _)
digits_le(a, b) ==
    IF a = <<>> THEN TRUE
    ELSE IF DigitVal(Head(a)) < DigitVal(Head(b)) THEN TRUE
    ELSE IF DigitVal(Head(a)) > DigitVal(Head(b)) THEN FALSE
    ELSE digits_le(Tail(a), Tail(b))

\* a <= b for two usize values
usize_le(a, b) ==
    \/ Len(a) < Len(b)
    \/ Len(a) = Len(b) /\ digits_le(a, b)

\* the loop of from_str_radix: result.checked_mul(10)?.checked_add(digit)?,
\* which fails on a character that is no digit and on a value above
\* usize::MAX
RECURSIVE parse_digits(_, _)
parse_digits(s, acc) ==
    IF s = <<>> THEN SomeLen(acc)
    ELSE IF ~IsDigit(Head(s)) THEN NoLen
    ELSE LET next == IF acc = <<"0">> THEN <<Head(s)>> ELSE Append(acc, Head(s))
         IN  IF ~usize_le(next, USIZE_MAX) THEN NoLen
             ELSE parse_digits(Tail(s), next)

\* a variant of parse_usize: a leading "-" is skipped like a leading "+"
parse_usize_any_sign(s) ==
    LET d == IF s # <<>> /\ Head(s) \in {"+", "-"} THEN Tail(s) ELSE s
    IN  IF d = <<>> THEN NoLen ELSE parse_digits(d, <<"0">>)

\* str::parse::<usize>: an optional "+", then one or more decimal digits
\* that give a value of at most usize::MAX
parse_usize(s) ==
    LET d == IF s # <<>> /\ Head(s) = "+" THEN Tail(s) ELSE s
    IN  IF d = <<>> THEN NoLen ELSE parse_digits(d, <<"0">>)

\* req.headers().get(CONTENT_LENGTH)
\*    .and_then(|l| l.to_str().ok()).and_then(|s| s.parse::<usize>().ok())
content_length(h) ==
    IF h.kind = "text" THEN parse_usize(h.text) ELSE NoLen

AppDataDirect == { NoConfig, SomeConfig(XmlConfig(DirectLimit, "text_plain")) }
AppDataWrapped == { NoConfig, SomeConfig(XmlConfig(WrappedLimit, "None")) }

\* the requests given to Xml::from_request
Requests ==
    [ content_type : ContentTypeHeaders,
      content_length : ContentLengthHeaders,
      direct : AppDataDirect,
      wrapped : AppDataWrapped ]

\* the requests given to XmlBody::new by a caller that does not use the
\* extractor (XmlBody::new reads neither the app data nor the Content-Type)
BodyRequests ==
    [ content_type : { CtMime("text", "plain", <<>>) },
      content_length : ContentLengthHeaders,
      direct : { NoConfig },
      wrapped : { NoConfig } ]

----------------------------------------------------------------------------
(* The payload stream *)

ChunkData == { <<"<">>, <<"<", ">">> }

PayloadErrors == {"EncodingCorrupted"}

Chunk(d) == [kind |-> "chunk", data |-> d, code |-> "None"]
StreamErr(c) == [kind |-> "err", data |-> <<>>, code |-> c]
Eof == [kind |-> "eof", data |-> <<>>, code |-> "None"]

Items == { Chunk(d) : d \in ChunkData } \cup { StreamErr(c) : c \in PayloadErrors }
            \cup { Eof }

\* the payloads: at most MaxItems items, chunks and then the end of the
\* stream or an error of the stream
Payloads ==
    { s \in UNION { [1..k -> Items] : k \in 1..MaxItems } :
        /\ \A i \in 1..(Len(s) - 1) : s[i].kind = "chunk"
        /\ s[Len(s)].kind # "chunk" }

\* the bytes of the chunks of a sequence of items, in their order
RECURSIVE ConcatChunks(_)
ConcatChunks(items) ==
    IF items = <<>> THEN <<>> ELSE Head(items).data \o ConcatChunks(Tail(items))

----------------------------------------------------------------------------
(* config.rs *)

\* a variant of check_content_type: a request without a media type passes
check_content_type_lenient(config, r) ==
    LET m == mime_type(r.content_type)
    IN  IF m.tag = "Some"
        THEN IF \/ mime_eq_str(m.mime, "text", "xml")
                \/ mime_eq_str(m.mime, "application", "xml")
                \/ /\ config.content_type # "None"
                   /\ predicate(config.content_type, m.mime)
             THEN Ok(<<>>)
             ELSE ContentType
        ELSE Ok(<<>>)

\* a variant of check_content_type: the configured predicate is not consulted
check_content_type_builtin_only(config, r) ==
    LET m == mime_type(r.content_type)
    IN  IF m.tag = "Some"
        THEN IF \/ mime_eq_str(m.mime, "text", "xml")
                \/ mime_eq_str(m.mime, "application", "xml")
             THEN Ok(<<>>)
             ELSE ContentType
        ELSE ContentType

\* XmlConfig::check_content_type: Ok(()) or Err(ContentType)
check_content_type(config, r) ==
    LET m == mime_type(r.content_type)
    IN  IF m.tag = "Some"
        THEN IF \/ mime_eq_str(m.mime, "text", "xml")
                \/ mime_eq_str(m.mime, "application", "xml")
                \/ /\ config.content_type # "None"
                   /\ predicate(config.content_type, m.mime)
             THEN Ok(<<>>)
             ELSE ContentType
        ELSE ContentType

\* a variant of from_req: the config inside web::Data is looked up first
from_req_wrapped_first(r) ==
    IF r.wrapped.some THEN r.wrapped.v
    ELSE IF r.direct.some THEN r.direct.v
    ELSE DEFAULT_CONFIG

\* XmlConfig::from_req: app_data::<Self>(), or else app_data::<Data<Self>>(),
\* or else &DEFAULT_CONFIG
from_req(r) ==
    IF r.direct.some THEN r.direct.v
    ELSE IF r.wrapped.some THEN r.wrapped.v
    ELSE DEFAULT_CONFIG

----------------------------------------------------------------------------
(* lib.rs: XmlBody *)

\* XmlBody::new: the fields of the new XmlBody.  fut is the boxed async block
\* (None, or Some of a block that runs or has returned) and captured the
\* limit the block owns, 0 while there is no block
new(r) ==
    [ limit |-> XMLBODY_DEFAULT_LIMIT,
      length |-> content_length(r.content_length),
      stream |-> TRUE,
      fut |-> "None",
      captured |-> 0,
      err |-> "None" ]

\* XmlBody::limit
with_limit(xmlbody, l) == [xmlbody EXCEPT !.limit = l]

\* the state of the variable xb while no XmlBody exists
NoXmlBody ==
    [ limit |-> 0, length |-> NoLen, stream |-> FALSE, fut |-> "None", captured |-> 0,
      err |-> "None" ]

\* a variant of drop_in_place: the stream handle outlives the XmlBody
drop_in_place_leak(xmlbody) ==
    [xmlbody EXCEPT !.length = NoLen, !.fut = "None", !.captured = 0, !.err = "None"]

\* the drop of an XmlBody (the struct has no Drop impl: its fields are
\* dropped): the stream it holds, or the async block that holds the stream
\* and the buffer, are released
drop_in_place(xmlbody) ==
    [xmlbody EXCEPT !.length = NoLen, !.stream = FALSE, !.fut = "None", !.captured = 0,
                    !.err = "None"]

\* The type parameter of Xml<T> and XmlBody<U> (T: DeserializeOwned).  The
\* program uses nothing of it but its Deserialize, which quick_xml runs on
\* the buffer; a target type is held as the set of the buffers its
\* Deserialize accepts.
Targets(bufs) == SUBSET bufs

\* the value of the target type that its Deserialize makes of the buffer
Decoded(buf) == << buf >>

\* quick_xml::de::from_reader(&*body) (line 263): T::deserialize on a
\* Deserializer over the buffer, Ok(value) or Err(DeError), the latter
\* made XMLPayloadError::Deserialize by the ? of the block
from_reader(U, buf) == IF buf \in U THEN Ok(Decoded(buf)) ELSE Deserialize

\* a variant of declared_too_long: the declared length is not checked
declared_too_long_never(len, limit) == FALSE

\* poll, line 245: len > limit (len a usize as digits, limit a number)
declared_too_long(len, limit) == ~usize_le(len, Digits(limit))

\* a variant of chunk_overflows: the size of the buffer is left out
chunk_overflows_chunk_only(bodyLen, chunkLen, limit) == chunkLen > limit

\* a variant of chunk_overflows: a buffer that reaches the limit overflows
chunk_overflows_inclusive(bodyLen, chunkLen, limit) == (bodyLen + chunkLen) >= limit

\* a variant of chunk_overflows: the buffer is measured before the chunk is
\* counted in
chunk_overflows_body_only(bodyLen, chunkLen, limit) == bodyLen > limit

\* a variant of chunk_overflows: the size is not checked
chunk_overflows_never(bodyLen, chunkLen, limit) == FALSE

\* the async block, line 257: (body.len() + chunk.len()) > limit
chunk_overflows(bodyLen, chunkLen, limit) == (bodyLen + chunkLen) > limit

\* a variant of from_payload_error: the error of the stream is reported as a
\* decoding error
from_payload_error_as_deserialize(code) == Deserialize

\* item?, line 256: the PayloadError becomes XMLPayloadError::Payload
from_payload_error(code) == Payload(code)

\* a variant of collect: a chunk replaces the buffer instead of extending it
RECURSIVE collect_overwrite(_, _, _, _)
collect_overwrite(U, buf, items, limit) ==
    IF items = <<>>
    THEN [ready |-> FALSE, res |-> NoResult, body |-> buf, taken |-> <<>>, decoded |-> <<>>]
    ELSE LET item == Head(items)
         IN  CASE item.kind = "eof" ->
                    [ready |-> TRUE, res |-> from_reader(U, buf), body |-> <<>>,
                     taken |-> <<item>>, decoded |-> << buf >>]
               [] item.kind = "err" ->
                    [ready |-> TRUE, res |-> from_payload_error(item.code), body |-> <<>>,
                     taken |-> <<item>>, decoded |-> <<>>]
               [] OTHER ->
                    IF chunk_overflows(Len(buf), Len(item.data), limit)
                    THEN [ready |-> TRUE, res |-> Overflow, body |-> <<>>,
                          taken |-> <<item>>, decoded |-> <<>>]
                    ELSE LET r == collect_overwrite(U, item.data, Tail(items), limit)
                         IN  [r EXCEPT !.taken = <<item>> \o @]

\* a variant of collect: on a chunk that crosses the limit the block goes on
\* reading what the stream has ready before it returns Overflow
RECURSIVE collect_drain(_, _, _, _)
collect_drain(U, buf, items, limit) ==
    IF items = <<>>
    THEN [ready |-> FALSE, res |-> NoResult, body |-> buf, taken |-> <<>>, decoded |-> <<>>]
    ELSE LET item == Head(items)
         IN  CASE item.kind = "eof" ->
                    [ready |-> TRUE, res |-> from_reader(U, buf), body |-> <<>>,
                     taken |-> <<item>>, decoded |-> << buf >>]
               [] item.kind = "err" ->
                    [ready |-> TRUE, res |-> from_payload_error(item.code), body |-> <<>>,
                     taken |-> <<item>>, decoded |-> <<>>]
               [] OTHER ->
                    IF chunk_overflows(Len(buf), Len(item.data), limit)
                    THEN [ready |-> TRUE, res |-> Overflow, body |-> <<>>,
                          taken |-> items, decoded |-> <<>>]
                    ELSE LET r == collect_drain(U, buf \o item.data, Tail(items), limit)
                         IN  [r EXCEPT !.taken = <<item>> \o @]

\* a variant of collect: an error of the stream ends the loop like the end
\* of the stream does, and what was collected is decoded
RECURSIVE collect_decode_on_error(_, _, _, _)
collect_decode_on_error(U, buf, items, limit) ==
    IF items = <<>>
    THEN [ready |-> FALSE, res |-> NoResult, body |-> buf, taken |-> <<>>, decoded |-> <<>>]
    ELSE LET item == Head(items)
         IN  CASE item.kind \in {"eof", "err"} ->
                    [ready |-> TRUE, res |-> from_reader(U, buf), body |-> <<>>,
                     taken |-> <<item>>, decoded |-> << buf >>]
               [] OTHER ->
                    IF chunk_overflows(Len(buf), Len(item.data), limit)
                    THEN [ready |-> TRUE, res |-> Overflow, body |-> <<>>,
                          taken |-> <<item>>, decoded |-> <<>>]
                    ELSE LET r == collect_decode_on_error(U, buf \o item.data, Tail(items), limit)
                         IN  [r EXCEPT !.taken = <<item>> \o @]

\* The async block of poll (lines 252-264), run on the items the stream has
\* ready: it reads them one by one until it returns or the stream answers
\* Pending.  ready: the block returned; res: what it returned; body: the
\* buffer it holds; taken: the items it read; decoded: the buffers it handed
\* to the decoder.
RECURSIVE collect(_, _, _, _)
collect(U, buf, items, limit) ==
    IF items = <<>>
    THEN [ready |-> FALSE, res |-> NoResult, body |-> buf, taken |-> <<>>, decoded |-> <<>>]
    ELSE LET item == Head(items)
         IN  CASE item.kind = "eof" ->
                    [ready |-> TRUE, res |-> from_reader(U, buf), body |-> <<>>,
                     taken |-> <<item>>, decoded |-> << buf >>]
               [] item.kind = "err" ->
                    [ready |-> TRUE, res |-> from_payload_error(item.code), body |-> <<>>,
                     taken |-> <<item>>, decoded |-> <<>>]
               [] OTHER ->
                    IF chunk_overflows(Len(buf), Len(item.data), limit)
                    THEN [ready |-> TRUE, res |-> Overflow, body |-> <<>>,
                          taken |-> <<item>>, decoded |-> <<>>]
                    ELSE LET r == collect(U, buf \o item.data, Tail(items), limit)
                         IN  [r EXCEPT !.taken = <<item>> \o @]

\* the outcome of one call of poll: the XmlBody and the buffer after it, what
\* it returned (ready FALSE: Poll::Pending), the items read from the stream,
\* whether the stream was polled and answered Pending, the buffers handed to
\* the decoder, whether it panicked, and the limit it read from self.limit
\* at line 243 (<<>>: it did not get there)
PollOutcome(x, b, rdy, res, taken, pend, decoded, panic, lim) ==
    [ xb |-> x, body |-> b, ready |-> rdy, res |-> res, taken |-> taken,
      pending |-> pend, decoded |-> decoded, panic |-> panic, limit |-> lim ]

\* poll, lines 235-237 and 251-268: the stored future is polled.  The block
\* checks the chunks against the limit it was created with, whatever the
\* field limit holds by now.  A boxed async block that has returned panics
\* when it is polled again.
poll_fut(U, xmlbody, buf, items) ==
    IF xmlbody.fut = "Done"
    THEN PollOutcome(xmlbody, buf, FALSE, NoResult, <<>>, FALSE, <<>>, TRUE, <<>>)
    ELSE LET r == collect(U, buf, items, xmlbody.captured)
         IN  PollOutcome([xmlbody EXCEPT !.fut = IF r.ready THEN "Done" ELSE "Running"],
                         r.body, r.ready, r.res, r.taken, ~r.ready, r.decoded, FALSE, <<>>)

\* a variant of poll: the stream is taken before the declared length is
\* checked
poll_take_first(U, xmlbody, buf, items) ==
    IF xmlbody.fut # "None"
    THEN poll_fut(U, xmlbody, buf, items)
    ELSE IF xmlbody.err # "None"
    THEN PollOutcome([xmlbody EXCEPT !.err = "None"], buf, TRUE,
                     [tag |-> "Err", err |-> xmlbody.err, cause |-> "None", value |-> <<>>],
                     <<>>, FALSE, <<>>, FALSE, <<>>)
    ELSE IF ~xmlbody.stream
    THEN PollOutcome(xmlbody, buf, FALSE, NoResult, <<>>, FALSE, <<>>, TRUE,
                     << xmlbody.limit >>)
    ELSE IF xmlbody.length.some /\ declared_too_long(xmlbody.length.v, xmlbody.limit)
    THEN PollOutcome([xmlbody EXCEPT !.length = NoLen, !.stream = FALSE], buf, TRUE, Overflow,
                     <<>>, FALSE, <<>>, FALSE, << xmlbody.limit >>)
    ELSE [ poll_fut(U, [xmlbody EXCEPT !.length = NoLen, !.stream = FALSE,
                                       !.fut = "Running", !.captured = xmlbody.limit],
                    <<>>, items)
           EXCEPT !.limit = << xmlbody.limit >> ]

\* <XmlBody as Future>::poll
poll(U, xmlbody, buf, items) ==
    IF xmlbody.fut # "None"
    THEN poll_fut(U, xmlbody, buf, items)
    ELSE IF xmlbody.err # "None"
    THEN PollOutcome([xmlbody EXCEPT !.err = "None"], buf, TRUE,
                     [tag |-> "Err", err |-> xmlbody.err, cause |-> "None", value |-> <<>>],
                     <<>>, FALSE, <<>>, FALSE, <<>>)
    ELSE IF xmlbody.length.some /\ declared_too_long(xmlbody.length.v, xmlbody.limit)
    THEN PollOutcome([xmlbody EXCEPT !.length = NoLen], buf, TRUE, Overflow,
                     <<>>, FALSE, <<>>, FALSE, << xmlbody.limit >>)
    ELSE IF ~xmlbody.stream
    THEN PollOutcome([xmlbody EXCEPT !.length = NoLen], buf, FALSE, NoResult,
                     <<>>, FALSE, <<>>, TRUE, << xmlbody.limit >>)
    ELSE [ poll_fut(U, [xmlbody EXCEPT !.length = NoLen, !.stream = FALSE,
                                       !.fut = "Running", !.captured = xmlbody.limit],
                    <<>>, items)
           EXCEPT !.limit = << xmlbody.limit >> ]

----------------------------------------------------------------------------
(* error.rs *)

\* a variant of error_response: every error is a bad request
error_response_bad_request(e) == BAD_REQUEST

\* <XMLPayloadError as ResponseError>::error_response: the status of the
\* response
error_response(e) ==
    IF e.err = "Overflow" THEN PAYLOAD_TOO_LARGE ELSE BAD_REQUEST

----------------------------------------------------------------------------
(* The state *)

VARIABLES
    req,          \* the request: its headers and app data
    payload,      \* the items the payload stream hands over, in order
    pc,           \* "start", "gate_failed" (from_request returned
                  \* Either::Right(err(e))), "body" (an XmlBody exists),
                  \* "panicked", "dropped" (the future was dropped)
    entry,        \* what the caller uses: "extractor" (Xml::from_request) or
                  \* "direct" (XmlBody::new)
    xb,           \* the fields of the XmlBody
    body,         \* the buffer of the async block
    payloadTaken, \* payload.take() was called
    delivered,    \* the items read from the stream so far: a prefix of payload
    pendings,     \* the polls of the stream that answered Pending
    target,       \* the target type of the extraction
    decodes,      \* the buffers handed to the decoder, in the order of the calls
    limits,       \* the limits the polls read from the XmlBody (line 243), in order
    results,      \* what the polls of the future returned as Poll::Ready
    suspended,    \* a poll of the future returned Poll::Pending
    repolled,     \* the future was polled after it had returned Poll::Ready
    response,     \* the status of the response made from the error, 0: none
    shared,       \* the XmlConfig two extractions share
    exts          \* the two extractions that share it

vars == << req, payload, target, pc, entry, xb, body, payloadTaken, delivered, pendings, decodes,
           limits, results, suspended, repolled, response, shared, exts >>

Init ==
    /\ \/ entry = "extractor" /\ req \in Requests
       \/ entry = "direct" /\ req \in BodyRequests
    /\ payload \in Payloads
    /\ target \in Targets({ ConcatChunks(payload) })
    /\ pc = "start"
    /\ xb = NoXmlBody
    /\ body = <<>>
    /\ payloadTaken = FALSE
    /\ delivered = <<>>
    /\ pendings = 0
    /\ decodes = <<>>
    /\ limits = <<>>
    /\ results = <<>>
    /\ suspended = FALSE
    /\ repolled = FALSE
    /\ response = 0
    /\ shared = DEFAULT_CONFIG
    /\ exts = <<>>

----------------------------------------------------------------------------
(* The operations *)

\* Xml::from_request (lib.rs 147-172)
from_request ==
    /\ pc = "start"
    /\ entry = "extractor"
    /\ LET config == from_req(req)
       IN  IF check_content_type(config, req).tag = "Err"
           THEN /\ pc' = "gate_failed"
                /\ UNCHANGED << xb, payloadTaken >>
           ELSE /\ pc' = "body"
                /\ xb' = with_limit(new(req), config.limit)
                /\ payloadTaken' = TRUE
    /\ UNCHANGED << response, shared, exts, req, target, payload, entry, body, delivered, pendings, decodes, limits, results,
                    suspended, repolled >>

\* XmlBody::new(req, payload), used without the extractor (tests.rs 93)
XmlBody_new ==
    /\ pc = "start"
    /\ entry = "direct"
    /\ pc' = "body"
    /\ xb' = new(req)
    /\ payloadTaken' = TRUE
    /\ UNCHANGED << response, shared, exts, req, target, payload, entry, body, delivered, pendings, decodes, limits, results,
                    suspended, repolled >>

\* XmlBody::new(req, payload).limit(l) (tests.rs 78)
XmlBody_new_limit(l) ==
    /\ pc = "start"
    /\ entry = "direct"
    /\ pc' = "body"
    /\ xb' = with_limit(new(req), l)
    /\ payloadTaken' = TRUE
    /\ UNCHANGED << response, shared, exts, req, target, payload, entry, body, delivered, pendings, decodes, limits, results,
                    suspended, repolled >>

\* the limits an XmlBody the user holds is given after it was created
LimitChanges == { DirectLimit - 2, DirectLimit + 1 }

\* XmlBody::limit(l) (lib.rs 221-225) on an XmlBody the user holds, between
\* two polls or before the first: the field limit is set; an async block
\* that exists keeps the limit it was created with
XmlBody_limit(l) ==
    /\ pc = "body"
    /\ entry = "direct"
    /\ xb' = with_limit(xb, l)
    /\ UNCHANGED << response, shared, exts, req, target, payload, pc, entry, body, payloadTaken,
                    delivered, pendings, decodes, limits, results, suspended, repolled >>

\* a poll of Either::Right(Ready(Err(e))): the error, once; futures::future::Ready
\* panics when polled after completion
PollReady ==
    /\ pc = "gate_failed"
    /\ IF results = <<>>
       THEN /\ results' = << check_content_type(from_req(req), req) >>
            /\ UNCHANGED << pc, repolled >>
       ELSE /\ pc' = "panicked"
            /\ repolled' = TRUE
            /\ UNCHANGED results
    /\ UNCHANGED << response, shared, exts, req, target, payload, entry, xb, body, payloadTaken, delivered, pendings,
                    decodes, limits, suspended >>

\* the items the stream has not handed over yet
Remaining == SubSeq(payload, Len(delivered) + 1, Len(payload))

\* <Map<XmlBody, F> as Future>::poll on the outcome of the poll of the
\* XmlBody (lib.rs 155-170): when the XmlBody returns Poll::Ready, Map
\* becomes Map::Complete and drops the XmlBody, and with it the stream
map_poll(o) ==
    IF o.ready THEN [o EXCEPT !.xb = drop_in_place(@), !.body = <<>>] ELSE o

\* the state after a call of poll on the XmlBody with the next k items
\* ready; mapped: the XmlBody is polled by the Map of the extractor
PollXmlBody(k, mapped) ==
    LET polled == poll(target, xb, body, SubSeq(Remaining, 1, k))
        o == IF mapped THEN map_poll(polled) ELSE polled
    IN  /\ o.pending => pendings < MaxPending
        \* a poll that does not poll the stream is the same whatever is ready
        /\ (o.taken = <<>> /\ ~o.pending) => k = 0
        /\ xb' = o.xb
        /\ body' = o.body
        /\ delivered' = delivered \o o.taken
        /\ pendings' = IF o.pending THEN pendings + 1 ELSE pendings
        /\ decodes' = decodes \o o.decoded
        /\ limits' = limits \o o.limit
        /\ results' = IF o.ready THEN Append(results, o.res) ELSE results
        /\ suspended' = (suspended \/ (~o.ready /\ ~o.panic))
        /\ pc' = IF o.panic THEN "panicked" ELSE pc
        /\ repolled' = (repolled \/ results # <<>>)
        /\ UNCHANGED << response, shared, exts, req, target, payload, entry, payloadTaken >>

\* a poll of Either::Left(XmlBody.map(..).boxed_local()) (lib.rs 155-171):
\* futures' Map polls the XmlBody, maps its output and drops the XmlBody
\* when it returns Poll::Ready, and panics when polled after that
PollExtractor(k) ==
    /\ pc = "body"
    /\ entry = "extractor"
    /\ IF results # <<>>
       THEN /\ pc' = "panicked"
            /\ repolled' = TRUE
            /\ UNCHANGED << response, shared, exts, req, target, payload, entry, xb, body, payloadTaken, delivered,
                            pendings, decodes, limits, results, suspended >>
       ELSE PollXmlBody(k, TRUE)

\* a poll of an XmlBody the user holds
PollBody(k) ==
    /\ pc = "body"
    /\ entry = "direct"
    /\ PollXmlBody(k, FALSE)

\* how many items the stream may have ready at a poll
Ready == 0 .. Len(Remaining)

\* the task that owns the future is cancelled before the future has returned:
\* the future is dropped, and with it the XmlBody, its stream and the buffer
\* of the async block (lib.rs 183-192, 249-266)
Drop ==
    /\ pc \in {"gate_failed", "body"}
    /\ results = <<>>
    /\ pc' = "dropped"
    /\ xb' = drop_in_place(xb)
    /\ body' = <<>>
    /\ UNCHANGED << response, shared, exts, req, target, payload, entry, payloadTaken, delivered,
                    pendings, decodes, limits, results, suspended, repolled >>

\* the host makes the response of the error the future returned
\* (<XMLPayloadError as ResponseError>::error_response, error.rs 24-31)
Respond ==
    /\ results # <<>>
    /\ results[1].tag = "Err"
    /\ response = 0
    /\ response' = error_response(results[1])
    /\ UNCHANGED << shared, exts, req, target, payload, pc, entry, xb, body, payloadTaken,
                    delivered, pendings, decodes, limits, results, suspended, repolled >>

Next ==
    \/ from_request
    \/ XmlBody_new
    \/ XmlBody_new_limit(DirectLimit)
    \/ \E l \in LimitChanges : XmlBody_limit(l)
    \/ PollReady
    \/ \E k \in Ready : PollExtractor(k)
    \/ \E k \in Ready : PollBody(k)
    \/ Respond
    \/ Drop

Spec == Init /\ [][Next]_vars

----------------------------------------------------------------------------
(* An XmlBody on a stream that need not end, polled until it returns.  The  *)
(* payload is what the stream hands over first: it ends, fails, or goes on  *)
(* past the items the model looks at, and then answers Pending.             *)

SourceRequests ==
    [ content_type : { CtMime("application", "xml", <<>>) },
      content_length : { ClAbsent, ClText(Digits(SourceLimit + 1)) },
      direct : { NoConfig },
      wrapped : { NoConfig } ]

SourcePayloads ==
    { s \in UNION { [1..k -> { Chunk(<<>>), Chunk(<<"<">>),
                               Eof, StreamErr("Incomplete") }] : k \in 1..SourceItems } :
        \A i \in 1..(Len(s) - 1) : s[i].kind = "chunk" }

InitSource ==
    /\ entry = "direct"
    /\ req \in SourceRequests
    /\ payload \in SourcePayloads
    /\ target \in Targets({ ConcatChunks(payload) })
    /\ pc = "start"
    /\ xb = NoXmlBody
    /\ body = <<>>
    /\ payloadTaken = FALSE
    /\ delivered = <<>>
    /\ pendings = 0
    /\ decodes = <<>>
    /\ limits = <<>>
    /\ results = <<>>
    /\ suspended = FALSE
    /\ repolled = FALSE
    /\ response = 0
    /\ shared = DEFAULT_CONFIG
    /\ exts = <<>>

NextSource ==
    \/ \E l \in 0 .. SourceLimit : XmlBody_new_limit(l)
    \/ XmlBody_limit(0)
    \/ \E k \in Ready : PollBody(k)

\* the task that owns the future is polled again whenever it can go on, and
\* the stream hands over its items
SpecSource ==
    /\ InitSource
    /\ [][NextSource]_vars
    /\ WF_vars(\E l \in 0 .. SourceLimit : XmlBody_new_limit(l))
    /\ WF_vars(\E k \in Ready : PollBody(k))

----------------------------------------------------------------------------
(* Two requests of one App: their extractions share the XmlConfig of the    *)
(* app data and are polled in any order.                                    *)

\* the variables of the single extraction
single == << req, payload, target, pc, entry, xb, body, payloadTaken, delivered, pendings,
            decodes, limits, results, suspended, repolled, response >>

Exts == {1, 2}

\* the requests of the two: the shared config is their app data, and its
\* predicate decides whether the body of a text/plain request is read
PairRequests(config) ==
    [ content_type : { CtMime("text", "plain", <<>>) },
      content_length : { ClAbsent },
      direct : { SomeConfig(config) },
      wrapped : { NoConfig } ]
    \cup
    [ content_type : { CtMime("application", "xml", <<>>) },
      content_length : { ClText(Digits(config.limit + 1)) },
      direct : { SomeConfig(config) },
      wrapped : { NoConfig } ]

\* their payloads
PairPayloads ==
    { s \in UNION { [1..k -> { Chunk(<<"<">>), Chunk(<<"<", ">", ">">>),
                               Eof, StreamErr("Incomplete") }] : k \in 1..PairItems } :
        /\ \A i \in 1..(Len(s) - 1) : s[i].kind = "chunk"
        /\ s[Len(s)].kind # "chunk" }

\* one extraction: its request and payload, where it stands, its XmlBody and
\* the buffer of its async block, what its stream delivered, what it returned
Extraction(r, p) ==
    [ req |-> r, payload |-> p, pc |-> "start", xb |-> NoXmlBody, body |-> <<>>,
      delivered |-> <<>>, pendings |-> 0, results |-> <<>> ]

InitPair ==
    /\ shared \in { XmlConfig(PairLimit, "None"), XmlConfig(PairLimit, "text_plain") }
    /\ \E r1 \in PairRequests(shared), r2 \in PairRequests(shared) :
       \E p1 \in PairPayloads, p2 \in PairPayloads :
            /\ exts = << Extraction(r1, p1), Extraction(r2, p2) >>
            /\ target \in Targets({ ConcatChunks(p1), ConcatChunks(p2) })
    /\ req = [ content_type |-> CtAbsent, content_length |-> ClAbsent,
               direct |-> NoConfig, wrapped |-> NoConfig ]
    /\ payload = << Eof >>
    /\ pc = "start"
    /\ entry = "pair"
    /\ xb = NoXmlBody
    /\ body = <<>>
    /\ payloadTaken = FALSE
    /\ delivered = <<>>
    /\ pendings = 0
    /\ decodes = <<>>
    /\ limits = <<>>
    /\ results = <<>>
    /\ suspended = FALSE
    /\ repolled = FALSE
    /\ response = 0

\* Xml::from_request on the request of extraction i (lib.rs 147-172)
PairFromRequest(i) ==
    /\ exts[i].pc = "start"
    /\ LET e == exts[i]
           config == from_req(e.req)
       IN  exts' = [exts EXCEPT ![i] =
                IF check_content_type(config, e.req).tag = "Err"
                THEN [e EXCEPT !.pc = "gate_failed"]
                ELSE [e EXCEPT !.pc = "body", !.xb = with_limit(new(e.req), config.limit)]]
    /\ UNCHANGED << shared, single >>

\* a poll of Either::Right(Ready(Err(e))) of extraction i
PairPollReady(i) ==
    /\ exts[i].pc = "gate_failed"
    /\ exts[i].results = <<>>
    /\ exts' = [exts EXCEPT ![i].results =
                    << check_content_type(from_req(exts[i].req), exts[i].req) >>]
    /\ UNCHANGED << shared, single >>

\* the items the stream of an extraction has not handed over yet
RemainingOf(e) == SubSeq(e.payload, Len(e.delivered) + 1, Len(e.payload))

\* a variant of poll_in: the buffer is one static buffer, the same for every
\* XmlBody
poll_in_static_buffer(es, i, k) ==
    LET e == es[i]
        o == poll(target, e.xb, e.body, SubSeq(RemainingOf(e), 1, k))
    IN  [es EXCEPT ![i] = [e EXCEPT !.xb = o.xb,
                                    !.body = o.body,
                                    !.delivered = @ \o o.taken,
                                    !.pendings = IF o.pending THEN @ + 1 ELSE @,
                                    !.results = IF o.ready THEN Append(@, o.res) ELSE @],
                   ![3 - i] = [es[3 - i] EXCEPT !.body = o.body]]

\* <XmlBody as Future>::poll on the XmlBody of extraction i, with the next k
\* items of its stream ready: self is the only state it reads and writes
poll_in(es, i, k) ==
    LET e == es[i]
        o == poll(target, e.xb, e.body, SubSeq(RemainingOf(e), 1, k))
    IN  [es EXCEPT ![i] = [e EXCEPT !.xb = o.xb,
                                    !.body = o.body,
                                    !.delivered = @ \o o.taken,
                                    !.pendings = IF o.pending THEN @ + 1 ELSE @,
                                    !.results = IF o.ready THEN Append(@, o.res) ELSE @]]

\* a poll of Either::Left(XmlBody.map(..).boxed_local()) of extraction i:
\* futures' Map polls the XmlBody and drops it when it returns Poll::Ready
PairPoll(i, k) ==
    /\ exts[i].pc = "body"
    /\ exts[i].results = <<>>
    /\ LET es == poll_in(exts, i, k)
       IN  exts' = IF es[i].results # <<>>
                   THEN [es EXCEPT ![i].xb = drop_in_place(@), ![i].body = <<>>]
                   ELSE es
    /\ exts'[i].pendings <= MaxPending
    /\ UNCHANGED << shared, single >>

NextPair ==
    \/ \E i \in Exts : PairFromRequest(i)
    \/ \E i \in Exts : PairPollReady(i)
    \/ \E i \in Exts : \E k \in 0 .. Len(RemainingOf(exts[i])) : PairPoll(i, k)

SpecPair == InitPair /\ [][NextPair]_vars

----------------------------------------------------------------------------
(* What the properties speak of *)

\* the number a usize held as digits stands for
RECURSIVE ToNat(_)
ToNat(d) == IF d = <<>> THEN 0 ELSE ToNat(SubSeq(d, 1, Len(d) - 1)) * 10 + DigitVal(d[Len(d)])

\* the declared length: the Content-Length header as XmlBody::new parses it
Declared ==
    LET len == content_length(req.content_length)
    IN  [some |-> len.some, v |-> ToNat(len.v)]

\* the limit in force: the one the latest poll read from the XmlBody when it
\* checked the declared length and created the async block, and until then
\* the one the XmlBody holds
EffectiveLimit == IF limits = <<>> THEN xb.limit ELSE limits[Len(limits)]

DeclaredOverLimit == Declared.some /\ Declared.v > EffectiveLimit

\* what the polls returned under the limit in force: a poll reads the limit
\* a second time only after the first returned the Overflow of the declared
\* length, and that outcome was under the limit read before
Outcomes ==
    IF Len(limits) <= 1 THEN results ELSE SubSeq(results, Len(limits), Len(results))

\* the bytes of the whole payload, and of what the stream has delivered
PayloadBytes == ConcatChunks(payload)
DeliveredBytes == ConcatChunks(delivered)

Last(seq) == seq[Len(seq)]

\* the payload ends with the end of the stream, not with an error
PayloadEnds == Last(payload).kind = "eof"

\* an XmlBody has been created
Started == payloadTaken

\* the stream was polled
StreamRead == delivered # <<>> \/ pendings > 0

\* the media type of the request, when the header holds one
HasMime == req.content_type.kind = "mime"
MediaType == req.content_type.mime

\* type and subtype are text/xml or application/xml, whatever the parameters
BuiltinType ==
    /\ HasMime
    /\ MediaType.subtype = "xml"
    /\ MediaType.type \in {"text", "application"}

\* the config the lookup order of the documentation picks: the one attached
\* directly, else the one inside web::Data, else the default
ExpectedConfig ==
    CASE req.direct.some -> req.direct.v
      [] req.wrapped.some -> req.wrapped.v
      [] OTHER -> [limit |-> 262144, content_type |-> "None"]

\* a predicate is configured and approves the media type
PredicateApproves ==
    /\ HasMime
    /\ ExpectedConfig.content_type # "None"
    /\ predicate(ExpectedConfig.content_type, MediaType)

\* the media type passes the gate: text/xml or application/xml as written in
\* the comparison (no parameters), or approved by the predicate
GateAccepts ==
    \/ BuiltinType /\ MediaType.params = <<>>
    \/ PredicateApproves

----------------------------------------------------------------------------
(* C1 *)

\* C1: whatever the Content-Length header says, no poll returns a success
\* when the bytes the stream delivers exceed the limit in force: every
\* outcome is Overflow, the decoder is not called and the buffer is dropped
\* with the future, not returned.
C1_NoSuccessBeyondLimit ==
    /\ (Started /\ Len(PayloadBytes) > EffectiveLimit) =>
            /\ \A i \in 1..Len(results) : results[i] = Overflow
            /\ Len(DeliveredBytes) > EffectiveLimit => results # <<>> /\ body = <<>>
            /\ Len(body) <= EffectiveLimit
            /\ decodes = <<>>
    /\ (entry = "extractor" /\ Len(PayloadBytes) > ExpectedConfig.limit) =>
            \A i \in 1..Len(results) : results[i].tag # "Ok"

\* an understated Content-Length, a chunk that fits and a chunk that crosses
\* the limit: Overflow
C1_Witness ==
    /\ pc = "body"
    /\ Declared.some /\ Declared.v <= EffectiveLimit
    /\ Len(delivered) = 2
    /\ Len(DeliveredBytes) > EffectiveLimit
    /\ results = <<Overflow>>

----------------------------------------------------------------------------
(* C2 *)

\* C2: when the declared Content-Length parses to a value greater than the
\* limit, the first poll of the XmlBody returns Overflow at once: it does not
\* suspend, it does not poll the stream and the decoder is not called.
\* (Polls made after the future has returned are the subject of C15.)
C2_FastReject ==
    (pc = "body" /\ DeclaredOverLimit /\ ~repolled) =>
        /\ results \in { <<>>, <<Overflow>> }
        /\ ~suspended
        /\ ~StreamRead
        /\ decodes = <<>>

\* a declared length one over the limit, a payload within the limit
C2_Witness ==
    /\ pc = "body"
    /\ Declared.some /\ Declared.v = EffectiveLimit + 1
    /\ Len(PayloadBytes) <= EffectiveLimit
    /\ ~repolled
    /\ results = <<Overflow>>
    /\ ~StreamRead

----------------------------------------------------------------------------
(* C3 *)

\* the body is within the limit and well-formed for the target type
BodyValid ==
    /\ PayloadEnds
    /\ Len(PayloadBytes) <= EffectiveLimit
    /\ from_reader(target, PayloadBytes).tag = "Ok"

\* C3 as stated: for every request the gate accepts, every declared
\* Content-Length and every chunking, a body within the limit and well-formed
\* yields the decoded value.
C3_Original ==
    (pc = "body" /\ entry = "extractor" /\ GateAccepts /\ BodyValid /\ results # <<>>) =>
        results[1].tag = "Ok"

\* C3, amended: for every request the gate accepts whose declared
\* Content-Length is absent, unparsable or at most the limit, and every
\* chunking, a body within the limit and well-formed for the target type
\* yields the value the decoder gives for the chunks joined in order, and no
\* error.
C3_DecodedWhenDeclaredWithinLimit ==
    (Started /\ entry = "extractor" /\ GateAccepts /\ ~DeclaredOverLimit /\ BodyValid) =>
        /\ results \in { <<>>, << Ok(Decoded(PayloadBytes)) >> }
        /\ delivered = payload <=> results # <<>>
        /\ decodes = IF results = <<>> THEN <<>> ELSE << PayloadBytes >>

\* a body of two chunks, with a declared length below its size
C3_Witness ==
    /\ pc = "body" /\ entry = "extractor" /\ GateAccepts
    /\ Declared.some /\ Declared.v < Len(PayloadBytes)
    /\ BodyValid
    /\ Len(payload) = 3
    /\ payload[1].data # <<>> /\ payload[2].data # <<>>
    /\ results # <<>> /\ results[1].tag = "Ok"

----------------------------------------------------------------------------
(* C4 *)

\* the media type is missing, unparsable, or neither built-in type nor
\* approved by a configured predicate
MediaRejected ==
    \/ ~HasMime
    \/ ~BuiltinType /\ ~PredicateApproves

\* C4: for a request whose media type is missing, unparsable, or neither
\* built-in nor approved by a configured predicate, Xml::from_request yields
\* ContentType whatever the declared length, the limit and the body: the
\* payload is not taken, the stream is not read and the decoder is not
\* called.
C4_RejectedBeforeAnyRead ==
    (entry = "extractor" /\ MediaRejected /\ pc # "start") =>
        /\ pc \in {"gate_failed", "panicked", "dropped"}
        /\ results \in { <<>>, <<ContentType>> }
        /\ pc = "panicked" => results # <<>>
        /\ pc = "dropped" => results = <<>>
        /\ ~payloadTaken
        /\ ~StreamRead
        /\ decodes = <<>>

\* text/plain with no predicate configured, a declared length over the limit
\* and a well-formed body
C4_Witness ==
    /\ entry = "extractor"
    /\ HasMime /\ MediaType.subtype = "plain"
    /\ ExpectedConfig.content_type = "None"
    /\ Declared.some /\ Declared.v > ExpectedConfig.limit
    /\ from_reader(target, PayloadBytes).tag = "Ok"
    /\ results = <<ContentType>>
    /\ ~payloadTaken

----------------------------------------------------------------------------
(* C5 *)

\* C5: check_content_type succeeds whenever type and subtype of the media
\* type are text/xml or application/xml, whatever its parameters, with or
\* without a configured predicate: such a request passes the gate of
\* Xml::from_request.
C5_BuiltinTypePasses ==
    (entry = "extractor" /\ BuiltinType /\ pc # "start") =>
        /\ check_content_type(from_req(req), req) = Ok(<<>>)
        /\ payloadTaken
        /\ pc # "gate_failed"

----------------------------------------------------------------------------
(* C6 *)

\* the decoded value or the error the documentation gives for a request that
\* passed the gate, from the limit, the declared length and the payload alone
ExpectedOutcome ==
    IF DeclaredOverLimit THEN Overflow
    ELSE IF Len(PayloadBytes) > EffectiveLimit THEN Overflow
    ELSE IF ~PayloadEnds THEN Payload(Last(payload).code)
    ELSE from_reader(target, PayloadBytes)

\* C6: a media type that is neither text/xml nor application/xml passes
\* check_content_type if and only if a predicate is configured and returns
\* true for it; and the outcome of an approved request is the one its limit,
\* declared length and payload give whatever the media type: the same decoded
\* value as with a built-in type.
C6_CustomTypeByPredicate ==
    (entry = "extractor" /\ HasMime /\ ~BuiltinType /\ pc # "start") =>
        /\ (check_content_type(from_req(req), req) = Ok(<<>>)) <=> PredicateApproves
        /\ payloadTaken <=> PredicateApproves
        /\ pc = "gate_failed" <=> ~PredicateApproves /\ pc \notin {"panicked", "dropped"}
        /\ (payloadTaken /\ results # <<>>) => results = <<ExpectedOutcome>>

\* text/plain approved by the predicate: the body is decoded
C6_Witness ==
    /\ entry = "extractor"
    /\ HasMime /\ MediaType.type = "text" /\ MediaType.subtype = "plain"
    /\ PredicateApproves
    /\ BodyValid
    /\ results # <<>> /\ results[1].tag = "Ok" /\ results[1].value # <<>>

----------------------------------------------------------------------------
(* C7 *)

\* C7: a body whose size equals the limit is collected without Overflow under
\* every chunking (and decoded); a body one byte longer yields Overflow; and
\* a declared length equal to the limit is not rejected before the stream is
\* read.
C7_Boundary ==
    Started =>
        /\ (Len(PayloadBytes) = EffectiveLimit /\ ~DeclaredOverLimit /\ Outcomes # <<>>) =>
                /\ Outcomes[1] # Overflow
                /\ PayloadEnds => Outcomes[1] = from_reader(target, PayloadBytes) /\ decodes = << PayloadBytes >>
        /\ (Len(PayloadBytes) = EffectiveLimit + 1 /\ Outcomes # <<>>) =>
                Outcomes[1] = Overflow
        /\ (Declared.some /\ Declared.v = EffectiveLimit /\ (Outcomes # <<>> \/ suspended)) =>
                /\ StreamRead
                /\ Outcomes # <<>> /\ Outcomes[1] = Overflow =>
                        Len(DeliveredBytes) > EffectiveLimit

\* a body of two chunks whose size and declared length equal the limit
C7_Witness ==
    /\ pc = "body"
    /\ Len(PayloadBytes) = EffectiveLimit
    /\ Declared.some /\ Declared.v = EffectiveLimit
    /\ Len(payload) = 3 /\ payload[1].data # <<>> /\ payload[2].data # <<>>
    /\ delivered = payload
    /\ results # <<>> /\ results[1].tag = "Ok"

----------------------------------------------------------------------------
(* C8 *)

\* C8: XmlConfig::from_req always yields a config: the one attached directly
\* as app data, else the one inside web::Data, else the default (limit
\* 262144, no predicate); the limit and the predicate applied to the request
\* are the ones of that config, the direct one when both are attached.
C8_ConfigLookupOrder ==
    /\ from_req(req) =
            (CASE req.direct.some -> req.direct.v
               [] req.wrapped.some -> req.wrapped.v
               [] OTHER -> [limit |-> 262144, content_type |-> "None"])
    /\ (entry = "extractor" /\ payloadTaken) => xb.limit = from_req(req).limit
    /\ (entry = "extractor" /\ pc # "start" /\ req.direct.some) =>
            /\ payloadTaken => xb.limit = req.direct.v.limit
            /\ (HasMime /\ ~BuiltinType) =>
                    (payloadTaken <=> /\ req.direct.v.content_type # "None"
                                      /\ predicate(req.direct.v.content_type, MediaType))
    /\ (entry = "extractor" /\ pc # "start" /\ ~req.direct.some /\ req.wrapped.some) =>
            /\ payloadTaken => xb.limit = req.wrapped.v.limit
            /\ (HasMime /\ ~BuiltinType) =>
                    (payloadTaken <=> /\ req.wrapped.v.content_type # "None"
                                      /\ predicate(req.wrapped.v.content_type, MediaType))
    /\ (entry = "extractor" /\ pc # "start" /\ ~req.direct.some /\ ~req.wrapped.some) =>
            /\ payloadTaken => xb.limit = 262144
            /\ (HasMime /\ ~BuiltinType) => ~payloadTaken

\* both configs attached: the direct one's predicate lets text/plain pass and
\* the direct one's limit allows a body the wrapped one's limit rejects
C8_Witness ==
    /\ entry = "extractor"
    /\ req.direct.some /\ req.wrapped.some
    /\ req.direct.v # req.wrapped.v
    /\ HasMime /\ MediaType.subtype = "plain"
    /\ req.wrapped.v.limit < Len(PayloadBytes)
    /\ Len(PayloadBytes) <= req.direct.v.limit
    /\ results # <<>> /\ results[1].tag = "Ok"

----------------------------------------------------------------------------
(* C9 *)

\* C9: an XmlBody built with XmlBody::new and awaited by the caller returns
\* an error when the content type of the request is not text/xml or
\* application/xml.
C9_BodyChecksContentType ==
    (entry = "direct" /\ ~BuiltinType /\ results # <<>>) =>
        results[1].tag = "Err"

----------------------------------------------------------------------------
(* C10 *)

\* the stream has handed over an error
ErrDelivered == delivered # <<>> /\ Last(delivered).kind = "err"

\* C10: when the stream hands over an error, the poll returns that error as
\* XMLPayloadError::Payload, the decoder is not called, and afterwards the
\* stream is not polled again and no other outcome is produced.
C10_TransportErrorIsFinal ==
    /\ [](ErrDelivered =>
            /\ results # <<>>
            /\ Last(results) = Payload(Last(delivered).code)
            /\ ~repolled => results = << Payload(Last(delivered).code) >>
            /\ decodes = <<>>)
    /\ [][ErrDelivered =>
            /\ delivered' = delivered
            /\ pendings' = pendings
            /\ decodes' = decodes
            /\ results' = results]_vars

\* a chunk, a suspension, then an error of the stream, and a poll after it
C10_Witness ==
    /\ Len(delivered) = 2
    /\ delivered[1].data # <<>>
    /\ suspended
    /\ results = << Payload("EncodingCorrupted") >>
    /\ pc = "panicked"

----------------------------------------------------------------------------
(* C11 *)

\* C11: the response made from an extraction error has status 413 when the
\* error is Overflow and status 400 when it is ContentType, Deserialize or
\* Payload; no error gets any other status.
C11_ErrorStatus ==
    response # 0 =>
        /\ results # <<>>
        /\ results[1].tag = "Err"
        /\ results[1].err \in {"Overflow", "ContentType", "Deserialize", "Payload"}
        /\ results[1].err = "Overflow" => response = 413
        /\ results[1].err # "Overflow" => response = 400

\* the response of an Overflow raised while the stream was read
C11_Witness ==
    /\ results # <<>> /\ results[1] = Overflow
    /\ delivered # <<>>
    /\ response = 413

----------------------------------------------------------------------------
(* C12 *)

\* C12: between any two polls, whatever the sizes of the chunks and however
\* the stream's Pending answers fall, the buffer of the collector holds at
\* most limit bytes: it holds the chunks read so far, and a chunk that would
\* take it past the limit is not appended.
C12_BufferWithinLimit ==
    Started =>
        /\ Len(body) <= EffectiveLimit
        /\ xb.fut = "Running" => body = DeliveredBytes
        /\ Len(DeliveredBytes) > EffectiveLimit => body = <<>>

\* the collector is suspended with a buffer that holds exactly limit bytes
C12_Witness ==
    /\ pc = "body"
    /\ xb.fut = "Running"
    /\ suspended
    /\ Len(delivered) >= 1
    /\ Len(body) = EffectiveLimit
    /\ Len(Remaining) = 2
    /\ Remaining[1].kind = "chunk" /\ Remaining[1].data # <<>>

----------------------------------------------------------------------------
(* C13 *)

\* all items of a sequence but the last
Front(seq) == SubSeq(seq, 1, Len(seq) - 1)

\* the stream has handed over more bytes than the limit allows
Crossed == Len(DeliveredBytes) > EffectiveLimit

\* C13: with no declared length, when the chunks of the body cross the limit
\* partway, Overflow is returned by the poll that reads the first chunk with
\* buffer.length + chunk.length > limit: the chunks before it were appended
\* (they fit), the crossing chunk is the last item read, and no item after it
\* is ever requested from the stream.
C13_OverflowAtCrossingChunk ==
    /\ []((Started /\ ~Declared.some) =>
            /\ Crossed =>
                /\ results # <<>> /\ results[1] = Overflow
                /\ Last(delivered).kind = "chunk"
                /\ Len(ConcatChunks(Front(delivered))) <= EffectiveLimit
            /\ (~Crossed /\ results = <<>> /\ pc = "body") => body = DeliveredBytes
            /\ (results # <<>> /\ results[1] = Overflow) => Crossed)
    /\ [][(Started /\ ~Declared.some /\ Crossed) => delivered' = delivered]_vars

\* a chunk that fits, a suspension, a chunk that crosses the limit; the rest
\* of the stream is left unread, also by a later poll
C13_Witness ==
    /\ Started /\ ~Declared.some
    /\ Len(payload) = 3
    /\ Len(delivered) = 2
    /\ delivered[1].data # <<>>
    /\ suspended
    /\ Crossed
    /\ results = <<Overflow>>
    /\ pc = "panicked"

----------------------------------------------------------------------------
(* C14 *)

\* the stream has handed over its end after chunks only
EndDelivered ==
    /\ delivered # <<>>
    /\ Last(delivered).kind = "eof"
    /\ \A i \in 1..(Len(delivered) - 1) : delivered[i].kind = "chunk"

\* C14: within one extraction the decoder is called at most once, and only
\* when the stream has signalled its end after chunks that stayed within the
\* limit and without an error of the stream; what it is given is the chunks
\* joined in the order delivered.  A Deserialize outcome comes only from
\* that call.
C14_DecodeOnceAfterEnd ==
    /\ Len(decodes) <= 1
    /\ decodes # <<>> =>
            /\ EndDelivered
            /\ Len(DeliveredBytes) <= EffectiveLimit
            /\ decodes = << DeliveredBytes >>
            /\ results # <<>>
            /\ Last(results) = from_reader(target, DeliveredBytes)
    /\ (Started /\ EndDelivered) => Len(decodes) = 1
    /\ \A i \in 1..Len(results) :
            results[i].tag = "Ok" \/ results[i].err = "Deserialize" =>
                /\ Len(decodes) = 1
                /\ i = Len(results)

\* two chunks read by different polls, then the end: the decoder is called
\* once, on a buffer it rejects
C14_Witness ==
    /\ Len(delivered) = 3
    /\ delivered[1].data # <<>> /\ delivered[2].data # <<>>
    /\ suspended
    /\ decodes = << DeliveredBytes >>
    /\ results = <<Deserialize>>

----------------------------------------------------------------------------
(* C15 *)

\* a poll of the XmlBody has returned an error
ErrReturned == results # <<>> /\ results[1].tag = "Err"

\* C15: once a poll of an XmlBody has returned an error, no later poll of it
\* reads the stream or returns another outcome.
C15_ErrorIsTerminal ==
    [][(pc = "body" /\ ErrReturned) =>
            /\ delivered' = delivered
            /\ pendings' = pendings
            /\ results' = results]_vars

----------------------------------------------------------------------------
(* C16 *)

\* the future was dropped before it returned
Dropped == pc = "dropped"

\* C16: when the future is dropped before it has returned (before its first
\* poll, while it is suspended, or after chunks were appended), no outcome is
\* produced for the extraction, neither a value nor an error, the buffer and
\* the stream handle are released, and the stream is not read again.
C16_CancelReleases ==
    /\ [](Dropped =>
            /\ results = <<>>
            /\ decodes = <<>>
            /\ body = <<>>
            /\ ~xb.stream
            /\ xb.fut = "None")
    /\ [][Dropped =>
            /\ Dropped'
            /\ results' = results
            /\ delivered' = delivered
            /\ pendings' = pendings]_vars

\* dropped while suspended, after a chunk was appended and with more of the
\* stream to come
C16_Witness ==
    /\ Dropped
    /\ payloadTaken
    /\ suspended
    /\ Len(delivered) = 1 /\ delivered[1].data # <<>>
    /\ Len(Remaining) = 2

----------------------------------------------------------------------------
(* C18 *)

\* the Content-Length header is present and is not a non-negative integer
\* that parse::<usize> takes: not ASCII text, not a number, negative, or
\* above usize::MAX
Unparsable ==
    \/ req.content_length.kind = "opaque"
    \/ /\ req.content_length.kind = "text"
       /\ req.content_length.text \in { <<"a">>, <<"-", "1">>, OverUsize }

\* the outcome the size of the streamed body, its end and the decoder give
StreamOutcome ==
    IF Len(PayloadBytes) > EffectiveLimit THEN Overflow
    ELSE IF ~PayloadEnds THEN Payload(Last(payload).code)
    ELSE from_reader(target, PayloadBytes)

\* C18: a Content-Length header that is present but not a non-negative
\* integer leaves the XmlBody without a declared length, as an absent header
\* does: it gives no error by itself, the fast rejection never fires (every
\* outcome comes after the stream was read), and the outcome is the one the
\* streamed size against the limit, the end of the stream and the decoder
\* give.
C18_UnparsableLengthIgnored ==
    (Started /\ Unparsable) =>
        /\ ~xb.length.some
        /\ results # <<>> =>
            /\ delivered # <<>>
            /\ results = << StreamOutcome >>
            /\ results[1] = Overflow <=> Len(DeliveredBytes) > EffectiveLimit

\* Content-Length: -1 and a well-formed body read in two polls: decoded
C18_Witness ==
    /\ pc = "body"
    /\ req.content_length.kind = "text" /\ req.content_length.text = <<"-", "1">>
    /\ suspended
    /\ Len(delivered) >= 2
    /\ results # <<>> /\ results[1].tag = "Ok" /\ results[1].value # <<>>

----------------------------------------------------------------------------
(* C20 *)

\* the XmlBody exists: it was created and not dropped, neither with the
\* cancelled future nor by the Map of the extractor when it had returned
Alive ==
    /\ Started
    /\ pc \in {"body", "panicked"}
    /\ ~(entry = "extractor" /\ results # <<>>)

\* C20: for every sequence of polls of an XmlBody, a poll made after a
\* fast-path Overflow included, the state never has fut = None together with
\* stream = None: when poll reaches stream.take().unwrap() the stream is
\* there, and the unwrap does not panic.
C20_StreamPresentAtUnwrap ==
    Alive =>
        /\ xb.fut # "None" \/ xb.stream
        /\ (pc = "panicked" /\ entry = "direct") => xb.fut = "Done"

\* a poll after a fast-path Overflow reached the unwrap, found the stream and
\* started the async block
C20_Witness ==
    /\ pc = "body"
    /\ DeclaredOverLimit
    /\ Len(results) >= 1 /\ results[1] = Overflow
    /\ repolled
    /\ xb.fut # "None"
    /\ ~xb.stream
    /\ delivered # <<>>

----------------------------------------------------------------------------
(* C17 *)

\* the outcome of an extraction run alone: from_request on its request, and
\* its future polled once with the whole payload ready
AloneOutcome(e) ==
    LET config == from_req(e.req)
        gate == check_content_type(config, e.req)
    IN  IF gate.tag = "Err" THEN gate
        ELSE poll(target, with_limit(new(e.req), config.limit), <<>>, e.payload).res

\* what of an extraction another extraction must leave alone
Own(e) == << e.xb, e.body, e.delivered, e.pendings, e.results, e.req, e.payload, e.pc >>

\* C17: two extractions that share one XmlConfig, polled in any order and
\* with any arrival of their chunks, each return the outcome they return when
\* run alone on the same request and chunks; a step of one leaves the buffer,
\* declared length, stream and results of the other as they were, and the
\* shared config keeps its limit and predicate.
C17_ExtractionsIndependent ==
    /\ [](\A i \in Exts :
            /\ exts[i].results \in { <<>>, << AloneOutcome(exts[i]) >> }
            /\ from_req(exts[i].req) = shared)
    /\ [][/\ shared' = shared
          /\ \A i \in Exts : Own(exts[i])' # Own(exts[i]) => Own(exts[3 - i])' = Own(exts[3 - i])]_vars

\* both extractions were suspended and both returned: one, after a chunk
\* had waited in its buffer, a decoded value, the other Overflow by the size
\* of its chunks
C17_Witness ==
    /\ \A i \in Exts : exts[i].pendings > 0 /\ exts[i].delivered # <<>>
    /\ Len(exts[1].delivered) = 2
    /\ exts[1].results # <<>> /\ exts[1].results[1].tag = "Ok"
    /\ exts[2].results = << Overflow >>

----------------------------------------------------------------------------
(* C19 *)

\* how many chunks the stream has handed over
RECURSIVE NumChunks(_)
NumChunks(items) ==
    IF items = <<>> THEN 0
    ELSE (IF Head(items).kind = "chunk" THEN 1 ELSE 0) + NumChunks(Tail(items))

\* every chunk handed over so far holds at least one byte
OnlyNonEmptyChunks ==
    \A i \in 1..Len(delivered) : delivered[i].kind = "chunk" => delivered[i].data # <<>>

\* the stream ends or fails after finitely many chunks
SourceFinite == Last(payload).kind # "chunk"

\* the collector has returned
Finished == results # <<>> /\ xb.fut = "Done"

\* C19: on a stream that hands over only non-empty chunks the collector has
\* returned by the time it has read limit + 1 chunks, whether or not the
\* stream ever ends; and on a stream that ends or fails after finitely many
\* chunks, a future that is polled fairly returns an outcome.
C19_Terminates ==
    /\ []((Started /\ OnlyNonEmptyChunks) =>
            /\ NumChunks(delivered) <= EffectiveLimit + 1
            /\ NumChunks(delivered) = EffectiveLimit + 1 => Finished /\ Last(results) = Overflow)
    /\ (SourceFinite ~> results # <<>>)

\* a stream of one-byte chunks that does not end, read up to chunk limit + 1
C19_Witness ==
    /\ Started
    /\ EffectiveLimit >= 2
    /\ OnlyNonEmptyChunks
    /\ NumChunks(delivered) = EffectiveLimit + 1
    /\ Len(payload) > Len(delivered)
    /\ Last(payload).kind = "chunk"
    /\ suspended
    /\ results = << Overflow >>

====
